---- MODULE Spec2Model ----
(***************************************************************************)
(* Fibonacci circuit of src/fibonacci.rs: the constraint schema            *)
(* (Config::configure), the two witness-assignment steps (Config::init,    *)
(* Config::assign), the driver (MyCircuit::synthesize, generalised to K    *)
(* steady-state steps) and the satisfiability check the test runs on the   *)
(* assigned table.                                                         *)
(***************************************************************************)
EXTENDS Integers, Sequences, FiniteSets, TLC

\* ------------------------------------------------------------------------
\* Bounds of the model
\* ------------------------------------------------------------------------
\* Modulus of the field the model computes in (stands for pasta::Fp).
P == 7
\* Largest number of steady-state steps a construction is driven through.
MaxSteps == 3

\* Rows of the table available to regions: one per region plus a spare one.
NumRows == MaxSteps + 2
Rows == 0 .. (NumRows - 1)

\* ------------------------------------------------------------------------
\* Field arithmetic and Value<F>
\* ------------------------------------------------------------------------
Field == 0 .. (P - 1)
FieldAdd(a, b) == (a + b) % P
FieldSub(a, b) == (a + P - b) % P
FieldMul(a, b) == (a * b) % P

\* Value<F>: Value::unknown() or Value::known(x).
Unknown == << >>
Known(x) == << x >>
Value == {Unknown} \cup {Known(x) : x \in Field}

\* A plausible slip: an unknown operand counted as zero.
ValueAddZero(a, b) ==
    LET x == IF a = Unknown THEN 0 ELSE a[1]
        y == IF b = Unknown THEN 0 ELSE b[1]
    IN  Known(FieldAdd(x, y))

\* Value<F> + Value<F>: unknown if either operand is unknown.
ValueAdd(a, b) ==
    IF a = Unknown \/ b = Unknown THEN Unknown ELSE Known(FieldAdd(a[1], b[1]))

\* ------------------------------------------------------------------------
\* Config and the gate
\* ------------------------------------------------------------------------
Columns == {"elem_1", "elem_2", "elem_3"}

\* The ConstraintSystem before configure.
EmptyCS == [advice |-> {}, equality |-> {}, selectors |-> {}, gates |-> {}]

\* Config::configure: three advice columns, each enabled for equality, the
\* selector and the gate "fibonacci".
configure(c) ==
    [c EXCEPT !.advice = @ \cup {"elem_1", "elem_2", "elem_3"},
              !.equality = @ \cup {"elem_1", "elem_2", "elem_3"},
              !.selectors = @ \cup {"q_fib"},
              !.gates = @ \cup {"fibonacci"}]

\* Plausible slips in the gate polynomial.
GatePlus(q_fib, elem_1, elem_2, elem_3) ==
    FieldMul(q_fib, FieldAdd(FieldAdd(elem_1, elem_2), elem_3))
GateNoSelector(q_fib, elem_1, elem_2, elem_3) ==
    FieldSub(FieldAdd(elem_1, elem_2), elem_3)

\* q_fib * (elem_1 + elem_2 - elem_3)
Gate(q_fib, elem_1, elem_2, elem_3) ==
    FieldMul(q_fib, FieldSub(FieldAdd(elem_1, elem_2), elem_3))

\* ------------------------------------------------------------------------
\* The table the layouter assigns into
\* ------------------------------------------------------------------------
Unassigned == [assigned |-> FALSE, value |-> Unknown]
Assigned(v) == [assigned |-> TRUE, value |-> v]

Cell(column, row) == [column |-> column, row |-> row]
AssignedCell(column, row, v) == [cell |-> Cell(column, row), value |-> v]

EmptyTable ==
    [q_fib   |-> [r \in Rows |-> FALSE],
     advice  |-> [r \in Rows |-> [c \in Columns |-> Unassigned]],
     copies  |-> {},
     regions |-> 0]

\* layouter.assign_region: the next region starts at the first free row.
assign_region(t) == [t EXCEPT !.regions = @ + 1]

\* self.q_fib.enable(&mut region, offset)
enable(t, row, offset) == [t EXCEPT !.q_fib[row + offset] = TRUE]

\* A plausible slip: the offset taken as an absolute row of the table.
assign_adviceAbs(t, column, row, offset, v) ==
    [t EXCEPT !.advice[offset][column] = Assigned(v)]

\* region.assign_advice(.., column, offset, || v)
assign_advice(t, column, row, offset, v) ==
    [t EXCEPT !.advice[row + offset][column] = Assigned(v)]

\* A plausible slip: the value is placed but no equality constraint is made.
copy_adviceFree(t, src, column, row, offset) ==
    assign_advice(t, column, row, offset, src.value)

\* src.copy_advice(.., &mut region, column, offset): assigns the source's
\* value and constrains the new cell equal to the source cell.
copy_advice(t, src, column, row, offset) ==
    LET t1 == assign_advice(t, column, row, offset, src.value)
    IN  [t1 EXCEPT !.copies = @ \cup {<< Cell(column, row + offset), src.cell >>}]

\* Result<(AssignedCell, AssignedCell), Error> together with the table.
Ok(t, c2, c3) == [ok |-> TRUE, table |-> t, out |-> << c2, c3 >>]
Err(t) == [ok |-> FALSE, table |-> t, out |-> << >>]

\* ------------------------------------------------------------------------
\* Witness assigner.  fail is the operation of the region that returns an
\* error (1 = enable, 2, 3, 4 = the three commits in order), 0 if none does:
\* the ? operator returns at once, so the operations after it are not run.
\* ------------------------------------------------------------------------
\* A plausible slip: the handles of elem_1 and elem_2 returned by init.
initWrongOut(t, elem_1, elem_2, fail) ==
    LET row == t.regions
        offset == 0
        t0 == assign_region(t)
        t1 == enable(t0, row, offset)
        t2 == assign_advice(t1, "elem_1", row, offset, elem_1)
        t3 == assign_advice(t2, "elem_2", row, offset, elem_2)
        c1 == AssignedCell("elem_1", row + offset, elem_1)
        c2 == AssignedCell("elem_2", row + offset, elem_2)
        elem_3 == ValueAdd(elem_1, c2.value)
        t4 == assign_advice(t3, "elem_3", row, offset, elem_3)
    IN  CASE fail = 1 -> Err(t0)
          [] fail = 2 -> Err(t1)
          [] fail = 3 -> Err(t2)
          [] fail = 4 -> Err(t3)
          [] OTHER    -> Ok(t4, c1, c2)

\* Config::init
init(t, elem_1, elem_2, fail) ==
    LET row == t.regions
        offset == 0
        t0 == assign_region(t)
        t1 == enable(t0, row, offset)
        t2 == assign_advice(t1, "elem_1", row, offset, elem_1)
        t3 == assign_advice(t2, "elem_2", row, offset, elem_2)
        c2 == AssignedCell("elem_2", row + offset, elem_2)
        elem_3 == ValueAdd(elem_1, c2.value)
        t4 == assign_advice(t3, "elem_3", row, offset, elem_3)
        c3 == AssignedCell("elem_3", row + offset, elem_3)
    IN  CASE fail = 1 -> Err(t0)
          [] fail = 2 -> Err(t1)
          [] fail = 3 -> Err(t2)
          [] fail = 4 -> Err(t3)
          [] OTHER    -> Ok(t4, c2, c3)

\* A plausible slip: an error of an operation dropped instead of returned, so
\* the operations after it still run.
assignIgnoreErr(t, elem_2, elem_3, fail) ==
    LET row == t.regions
        offset == 0
        t0 == assign_region(t)
        t1 == IF fail = 1 THEN t0 ELSE enable(t0, row, offset)
        t2 == IF fail = 2 THEN t1
              ELSE copy_advice(t1, elem_2, "elem_1", row, offset)
        c1 == AssignedCell("elem_1", row + offset, elem_2.value)
        t3 == IF fail = 3 THEN t2
              ELSE copy_advice(t2, elem_3, "elem_2", row, offset)
        c2 == AssignedCell("elem_2", row + offset, elem_3.value)
        sum == ValueAdd(c1.value, c2.value)
        t4 == IF fail = 4 THEN t3
              ELSE assign_advice(t3, "elem_3", row, offset, sum)
        c3 == AssignedCell("elem_3", row + offset, sum)
    IN  IF fail = 0 THEN Ok(t4, c2, c3) ELSE Err(t4)

\* A plausible slip: the handles passed in returned instead of the new ones.
assignStaleOut(t, elem_2, elem_3, fail) ==
    LET row == t.regions
        offset == 0
        t0 == assign_region(t)
        t1 == enable(t0, row, offset)
        t2 == copy_advice(t1, elem_2, "elem_1", row, offset)
        c1 == AssignedCell("elem_1", row + offset, elem_2.value)
        t3 == copy_advice(t2, elem_3, "elem_2", row, offset)
        c2 == AssignedCell("elem_2", row + offset, elem_3.value)
        sum == ValueAdd(c1.value, c2.value)
        t4 == assign_advice(t3, "elem_3", row, offset, sum)
    IN  CASE fail = 1 -> Err(t0)
          [] fail = 2 -> Err(t1)
          [] fail = 3 -> Err(t2)
          [] fail = 4 -> Err(t3)
          [] OTHER    -> Ok(t4, elem_2, elem_3)

\* A plausible slip: elem_3 computed from the previous elem_3 twice.
assignWrongSum(t, elem_2, elem_3, fail) ==
    LET row == t.regions
        offset == 0
        t0 == assign_region(t)
        t1 == enable(t0, row, offset)
        t2 == copy_advice(t1, elem_2, "elem_1", row, offset)
        t3 == copy_advice(t2, elem_3, "elem_2", row, offset)
        c2 == AssignedCell("elem_2", row + offset, elem_3.value)
        sum == ValueAdd(c2.value, c2.value)
        t4 == assign_advice(t3, "elem_3", row, offset, sum)
        c3 == AssignedCell("elem_3", row + offset, sum)
    IN  CASE fail = 1 -> Err(t0)
          [] fail = 2 -> Err(t1)
          [] fail = 3 -> Err(t2)
          [] fail = 4 -> Err(t3)
          [] OTHER    -> Ok(t4, c2, c3)

\* Config::assign
assign(t, elem_2, elem_3, fail) ==
    LET row == t.regions
        offset == 0
        t0 == assign_region(t)
        t1 == enable(t0, row, offset)
        t2 == copy_advice(t1, elem_2, "elem_1", row, offset)
        c1 == AssignedCell("elem_1", row + offset, elem_2.value)
        t3 == copy_advice(t2, elem_3, "elem_2", row, offset)
        c2 == AssignedCell("elem_2", row + offset, elem_3.value)
        sum == ValueAdd(c1.value, c2.value)
        t4 == assign_advice(t3, "elem_3", row, offset, sum)
        c3 == AssignedCell("elem_3", row + offset, sum)
    IN  CASE fail = 1 -> Err(t0)
          [] fail = 2 -> Err(t1)
          [] fail = 3 -> Err(t2)
          [] fail = 4 -> Err(t3)
          [] OTHER    -> Ok(t4, c2, c3)

\* ------------------------------------------------------------------------
\* The satisfiability check of the test (MockProver::run, assert_satisfied)
\* ------------------------------------------------------------------------
\* The field element a cell evaluates to; an unassigned cell evaluates to 0.
CellValue(t, cell) ==
    LET a == t.advice[cell.row][cell.column]
    IN  IF a.assigned /\ a.value # Unknown THEN a.value[1] ELSE 0

\* Every assigned cell carries a known value.
Witnessed(t) ==
    \A r \in Rows : \A c \in Columns :
        t.advice[r][c].assigned => t.advice[r][c].value # Unknown

\* The selector's value on row r as the gate polynomial reads it.
SelectorValue(t, r) == IF t.q_fib[r] THEN 1 ELSE 0

\* The gate vanishes on row r.
GateHolds(t, r) ==
    Gate(SelectorValue(t, r),
         CellValue(t, Cell("elem_1", r)),
         CellValue(t, Cell("elem_2", r)),
         CellValue(t, Cell("elem_3", r))) = 0

\* Every cell an active gate reads has been assigned.
CellsAssigned(t, r) ==
    t.q_fib[r] => \A c \in Columns : t.advice[r][c].assigned

\* Every equality constraint binds two cells of equal value.
CopiesHold(t) ==
    \A p \in t.copies : CellValue(t, p[1]) = CellValue(t, p[2])

Satisfied(c, t) ==
    /\ Witnessed(t)
    /\ \A r \in Rows :
          /\ "fibonacci" \in c.gates => GateHolds(t, r)
          /\ CellsAssigned(t, r)
    /\ CopiesHold(t)

\* ------------------------------------------------------------------------
\* State of one construction
\* ------------------------------------------------------------------------
VARIABLES
    state,          \* Unconfigured, Configured, Initialized, Steady, Failed
    cs,             \* the ConstraintSystem
    circuit,        \* MyCircuit: the seeds elem_1, elem_2
    K,              \* number of steady-state steps the driver asks for
    steps,          \* steady-state steps completed
    table,          \* the table assigned with the circuit's seeds
    handles,        \* the pair (elem_2, elem_3) last returned, << >> if none
    failedOp,       \* the operation whose error aborted the construction
    keygenTable,    \* the table of the same synthesis without witnesses
    keygenHandles,  \* its handles
    probe,          \* a row the gate polynomial is evaluated on
    residual        \* the gate's value on probe, Unknown until evaluated

vars == << state, cs, circuit, K, steps, table, handles, failedOp,
           keygenTable, keygenHandles, probe, residual >>

synthVars == << state, cs, circuit, K, steps, table, handles, failedOp,
                keygenTable, keygenHandles >>

\* MyCircuit::without_witnesses: Self::default(), both seeds unknown.
without_witnesses == [elem_1 |-> Unknown, elem_2 |-> Unknown]

NoProbe == [q_fib |-> 0, elem_1 |-> 0, elem_2 |-> 0, elem_3 |-> 0]

Init ==
    /\ state = "Unconfigured"
    /\ cs = EmptyCS
    /\ circuit \in [elem_1 : Value, elem_2 : Value]
    /\ K \in 0 .. MaxSteps
    /\ steps = 0
    /\ table = EmptyTable
    /\ handles = << >>
    /\ failedOp = 0
    /\ keygenTable = EmptyTable
    /\ keygenHandles = << >>
    /\ probe = NoProbe
    /\ residual = Unknown

\* Circuit::configure
Configure ==
    /\ state = "Unconfigured"
    /\ cs' = configure(cs)
    /\ state' = "Configured"
    /\ UNCHANGED << circuit, K, steps, table, handles, failedOp,
                    keygenTable, keygenHandles, probe, residual >>

\* synthesize: config.init(.., self.elem_1, self.elem_2)?
InitStep ==
    /\ state = "Configured"
    /\ \E fail \in 0 .. 4 :
          LET r  == init(table, circuit.elem_1, circuit.elem_2, fail)
              r0 == init(keygenTable, without_witnesses.elem_1,
                         without_witnesses.elem_2, fail)
          IN  /\ table' = r.table
              /\ handles' = r.out
              /\ keygenTable' = r0.table
              /\ keygenHandles' = r0.out
              /\ failedOp' = fail
              /\ state' = IF r.ok THEN "Initialized" ELSE "Failed"
    /\ UNCHANGED << cs, circuit, K, steps, probe, residual >>

\* synthesize: config.assign(.., elem_2, elem_3)?, once per steady-state step
AssignStep ==
    /\ state \in {"Initialized", "Steady"}
    /\ steps < K
    /\ \E fail \in 0 .. 4 :
          LET r  == assign(table, handles[1], handles[2], fail)
              r0 == assign(keygenTable, keygenHandles[1], keygenHandles[2], fail)
          IN  /\ table' = r.table
              /\ handles' = r.out
              /\ keygenTable' = r0.table
              /\ keygenHandles' = r0.out
              /\ failedOp' = fail
              /\ state' = IF r.ok THEN "Steady" ELSE "Failed"
              /\ steps' = IF r.ok THEN steps + 1 ELSE steps
    /\ UNCHANGED << cs, circuit, K, probe, residual >>

Next == Configure \/ InitStep \/ AssignStep

Spec == Init /\ [][Next]_vars

\* The driver runs every step it is asked for: synthesize is straight-line.
FairSpec == Spec /\ WF_vars(Next)

\* ------------------------------------------------------------------------
\* The gate polynomial on arbitrary rows
\* ------------------------------------------------------------------------
GateInit ==
    /\ state = "Configured"
    /\ cs = configure(EmptyCS)
    /\ circuit = without_witnesses
    /\ K = 0
    /\ steps = 0
    /\ table = EmptyTable
    /\ handles = << >>
    /\ failedOp = 0
    /\ keygenTable = EmptyTable
    /\ keygenHandles = << >>
    /\ probe \in [q_fib : {0, 1}, elem_1 : Field, elem_2 : Field, elem_3 : Field]
    /\ residual = Unknown

EvalGate ==
    /\ residual = Unknown
    /\ "fibonacci" \in cs.gates
    /\ residual' = Known(Gate(probe.q_fib, probe.elem_1, probe.elem_2, probe.elem_3))
    /\ UNCHANGED << synthVars, probe >>

GateNext == EvalGate

GateSpec == GateInit /\ [][GateNext]_vars

\* ------------------------------------------------------------------------
\* Vocabulary of the properties
\* ------------------------------------------------------------------------
Cells == {Cell(c, r) : c \in Columns, r \in Rows}

\* The construction has placed its regions without an error.
Built == state \in {"Initialized", "Steady"}

SeedsKnown == circuit.elem_1 # Unknown /\ circuit.elem_2 # Unknown
SeedsOneOne == circuit = [elem_1 |-> Known(1), elem_2 |-> Known(1)]

\* The three committed cells of row r.
RowOf(t, r) == << t.advice[r]["elem_1"], t.advice[r]["elem_2"], t.advice[r]["elem_3"] >>
KnownRow(x, y, z) == << Assigned(Known(x)), Assigned(Known(y)), Assigned(Known(z)) >>

\* The table with one committed cell changed to v.
Tamper(t, cell, v) ==
    [t EXCEPT !.advice[cell.row][cell.column] = Assigned(Known(v))]

\* The table with row r holding x, y, z.
Forge(t, r, x, y, z) ==
    [t EXCEPT !.advice[r] = [c \in Columns |->
        Assigned(Known(IF c = "elem_1" THEN x ELSE IF c = "elem_2" THEN y ELSE z))]]

\* The test's circuit: seeds (1, 1), init and one steady-state step.
TestFibBuilt == state = "Steady" /\ K = 1 /\ steps = 1 /\ SeedsOneOne

\* C1: the table built from seeds (1, 1) by init and one steady-state step
\* is satisfied, and changing any one committed cell to another field value
\* makes the satisfiability check fail.
C1_EndToEnd ==
    TestFibBuilt =>
        /\ Satisfied(cs, table)
        /\ \A cell \in Cells :
              table.advice[cell.row][cell.column].assigned =>
                 \A v \in Field \ {CellValue(table, cell)} :
                    ~Satisfied(cs, Tamper(table, cell, v))

C1_Witness ==
    /\ TestFibBuilt
    /\ RowOf(table, 1) = KnownRow(1, 2, 3)
    /\ ~Satisfied(cs, Tamper(table, Cell("elem_3", 1), 4))

\* C2: after init and any number of steady-state steps every region's row has
\* the selector active and satisfies elem_1 + elem_2 = elem_3, row 0 holds
\* (s1, s2, s1 + s2), row k+1 holds (elem_2 of row k, elem_3 of row k, their
\* sum), and seeds (1, 1) give (1,1,2), (1,2,3), (2,3,5).
C2_Fibonacci ==
    Built =>
        /\ \A r \in 0 .. steps :
              /\ table.q_fib[r]
              /\ \A c \in Columns : table.advice[r][c].assigned
              /\ table.advice[r]["elem_3"].value =
                    ValueAdd(table.advice[r]["elem_1"].value,
                             table.advice[r]["elem_2"].value)
        /\ RowOf(table, 0) =
              << Assigned(circuit.elem_1), Assigned(circuit.elem_2),
                 Assigned(ValueAdd(circuit.elem_1, circuit.elem_2)) >>
        /\ \A r \in 0 .. (steps - 1) :
              RowOf(table, r + 1) =
                 << table.advice[r]["elem_2"], table.advice[r]["elem_3"],
                    Assigned(ValueAdd(table.advice[r]["elem_2"].value,
                                      table.advice[r]["elem_3"].value)) >>
        /\ SeedsOneOne =>
              /\ RowOf(table, 0) = KnownRow(1, 1, 2)
              /\ steps >= 1 => RowOf(table, 1) = KnownRow(1, 2, 3)
              /\ steps >= 2 => RowOf(table, 2) = KnownRow(2, 3, 5)

C2_Witness ==
    /\ Built
    /\ SeedsOneOne
    /\ steps = 2
    /\ RowOf(table, 2) = KnownRow(2, 3, 5)

\* C3: on a row whose selector is active the gate polynomial evaluates to
\* zero exactly when elem_3 = elem_1 + elem_2 in the field, and to a nonzero
\* value for every other elem_3.
C3_GateSoundness ==
    (residual # Unknown /\ probe.q_fib = 1) =>
        (residual[1] = 0 <=> probe.elem_3 = FieldAdd(probe.elem_1, probe.elem_2))

C3_Witness ==
    /\ residual # Unknown
    /\ probe.q_fib = 1
    /\ probe.elem_3 # FieldAdd(probe.elem_1, probe.elem_2)
    /\ residual[1] # 0

\* C4: on a row whose selector is inactive the gate holds whatever the three
\* values are, so the unassigned rows after the last region leave a table
\* built from known seeds satisfied.
C4_GateVacuity ==
    /\ \A r \in Rows :
          ~table.q_fib[r] =>
             \A x, y, z \in Field : Gate(SelectorValue(table, r), x, y, z) = 0
    /\ (Built /\ SeedsKnown) =>
          /\ \A r \in (steps + 1) .. (NumRows - 1) :
                /\ ~table.q_fib[r]
                /\ \A c \in Columns : ~table.advice[r][c].assigned
          /\ Satisfied(cs, table)

C4_Witness ==
    /\ Built
    /\ SeedsKnown
    /\ steps = K
    /\ ~table.q_fib[steps + 1]
    /\ RowOf(table, steps + 1) = << Unassigned, Unassigned, Unassigned >>
    /\ GateHolds(Forge(table, steps + 1, 1, 1, 1), steps + 1)
    /\ Satisfied(cs, table)

\* The equality constraints a steady-state region at row r is built with.
CopyOfElem1(r) == << Cell("elem_1", r), Cell("elem_2", r - 1) >>
CopyOfElem2(r) == << Cell("elem_2", r), Cell("elem_3", r - 1) >>
CopyHolds(t, p) == CellValue(t, p[1]) = CellValue(t, p[2])

\* C5: every steady-state region's elem_1 is bound by an equality constraint
\* to the predecessor's elem_2 and its elem_2 to the predecessor's elem_3,
\* and a table in which such a cell differs from its source is rejected by
\* the copy check, also when the row's own gate holds.
C5_CopyEquality ==
    (Built /\ SeedsKnown) =>
        \A r \in 1 .. steps :
           /\ CopyOfElem1(r) \in table.copies
           /\ CopyOfElem2(r) \in table.copies
           /\ \A x, y, z \in Field :
                 LET f == Forge(table, r, x, y, z)
                 IN  /\ x # CellValue(table, Cell("elem_2", r - 1)) =>
                           ~CopyHolds(f, CopyOfElem1(r)) /\ ~CopiesHold(f)
                     /\ y # CellValue(table, Cell("elem_3", r - 1)) =>
                           ~CopyHolds(f, CopyOfElem2(r)) /\ ~CopiesHold(f)
                     /\ Satisfied(cs, f) =>
                           /\ x = CellValue(table, Cell("elem_2", r - 1))
                           /\ y = CellValue(table, Cell("elem_3", r - 1))

C5_Witness ==
    /\ Built
    /\ SeedsKnown
    /\ steps >= 1
    /\ \E x, y \in Field :
          LET f == Forge(table, steps, x, y, FieldAdd(x, y))
          IN  /\ x # CellValue(table, Cell("elem_2", steps - 1))
              /\ GateHolds(f, steps)
              /\ ~CopiesHold(f)
              /\ ~Satisfied(cs, f)

\* C6: init enables the selector on its row, commits elem_1 and elem_2 as
\* given and elem_3 = elem_1 + elem_2, makes no equality constraint, and
\* returns the handles of the committed elem_2 and elem_3 cells; seeds (1, 1)
\* give the row (1, 1, 2).
C6_Init ==
    state = "Initialized" =>
        LET sum == ValueAdd(circuit.elem_1, circuit.elem_2)
        IN  /\ table.regions = 1
            /\ table.q_fib[0]
            /\ table.advice[0]["elem_1"] = Assigned(circuit.elem_1)
            /\ table.advice[0]["elem_2"] = Assigned(circuit.elem_2)
            /\ table.advice[0]["elem_3"] = Assigned(sum)
            /\ table.copies = {}
            /\ handles = << AssignedCell("elem_2", 0, circuit.elem_2),
                            AssignedCell("elem_3", 0, sum) >>
            /\ SeedsOneOne => RowOf(table, 0) = KnownRow(1, 1, 2)

C6_Witness ==
    /\ state = "Initialized"
    /\ SeedsOneOne
    /\ RowOf(table, 0) = KnownRow(1, 1, 2)
    /\ handles[2] = AssignedCell("elem_3", 0, Known(2))

\* A steady-state step has just completed.
AssignDone == state' = "Steady" /\ steps' = steps + 1

\* C7: a steady-state step given handles with values p and q enables the
\* selector on the new row, places p in elem_1 and q in elem_2 as equality
\* copies of the source cells, commits elem_3 = p + q as a fresh value, and
\* returns the handles of the new row's elem_2 and elem_3 cells.
C7_AssignStep ==
    AssignDone =>
        LET p == handles[1].value
            q == handles[2].value
            r == table.regions
        IN  /\ table'.q_fib[r]
            /\ table'.advice[r]["elem_1"] = Assigned(p)
            /\ table'.advice[r]["elem_2"] = Assigned(q)
            /\ table'.advice[r]["elem_3"] = Assigned(ValueAdd(p, q))
            /\ << Cell("elem_1", r), handles[1].cell >> \in table'.copies
            /\ << Cell("elem_2", r), handles[2].cell >> \in table'.copies
            /\ \A c \in table'.copies :
                  c[1] # Cell("elem_3", r) /\ c[2] # Cell("elem_3", r)
            /\ handles' = << AssignedCell("elem_2", r, q),
                             AssignedCell("elem_3", r, ValueAdd(p, q)) >>
            /\ handles'[1].cell # handles[1].cell
            /\ handles'[2].cell # handles[2].cell

C7_Assign == [][C7_AssignStep]_vars

C7_Witness ==
    /\ state = "Steady"
    /\ steps = 2
    /\ SeedsKnown
    /\ handles[1].cell = Cell("elem_2", 2)
    /\ handles[2].cell = Cell("elem_3", 2)
    /\ CopyOfElem1(2) \in table.copies

\* What a table holds apart from the values: regions, selector activations,
\* assigned slots and equality constraints.
Shape(t) ==
    [regions  |-> t.regions,
     q_fib    |-> t.q_fib,
     assigned |-> [r \in Rows |-> [c \in Columns |-> t.advice[r][c].assigned]],
     copies   |-> t.copies]
HandleCells(h) == [i \in DOMAIN h |-> h[i].cell]

\* Every committed elem_3 of the table is unknown.
SumsUnknown(t) ==
    \A r \in Rows :
        t.advice[r]["elem_3"].assigned => t.advice[r]["elem_3"].value = Unknown

Rank(s) ==
    CASE s = "Unconfigured" -> 0
      [] s = "Configured"   -> 1
      [] s = "Initialized"  -> 2
      [] s = "Steady"       -> 3
      [] OTHER              -> 4

\* The operations of a region in the order the code issues them, as the
\* cells they leave behind: 1 the selector, 2..4 elem_1, elem_2, elem_3.
OpDone(t, r, op) ==
    CASE op = 1 -> t.q_fib[r]
      [] op = 2 -> t.advice[r]["elem_1"].assigned
      [] op = 3 -> t.advice[r]["elem_2"].assigned
      [] OTHER  -> t.advice[r]["elem_3"].assigned

Forward ==
    /\ state # "Failed"
    /\ \/ Rank(state') > Rank(state)
       \/ state = "Steady" /\ state' = "Steady" /\ steps' = steps + 1
    /\ steps' >= steps
    /\ state = "Unconfigured" => state' = "Configured"
    /\ state = "Configured" => state' \in {"Initialized", "Failed"}
    /\ state' = "Steady" =>
          /\ state \in {"Initialized", "Steady"}
          /\ Len(handles) = 2
          /\ handles[1].cell = Cell("elem_2", steps)
          /\ handles[2].cell = Cell("elem_3", steps)
    /\ state' = "Failed" =>
          /\ failedOp' \in 1 .. 4
          /\ handles' = << >>
          /\ steps' = steps
          /\ \A op \in 1 .. 4 :
                OpDone(table', table.regions, op) <=> op < failedOp'

Terminated == state = "Failed" \/ (Built /\ steps = K)

\* C9: the construction only moves forward along Unconfigured, Configured,
\* Initialized, Steady(1..K); a steady-state step follows a completed step
\* and consumes its handles; a failing operation ends the step at once with
\* the later commits not made, no handles, and no step after it; and without
\* a failure the construction ends in Steady(K).
C9_Lifecycle == [][Forward]_vars /\ <>Terminated

C9_Witness ==
    /\ state = "Failed"
    /\ failedOp = 3
    /\ steps = 1
    /\ table.advice[2]["elem_1"].assigned
    /\ ~table.advice[2]["elem_2"].assigned
    /\ handles = << >>

\* Rows with the selector active.
ActiveRows(t) == {r \in Rows : t.q_fib[r]}

\* A step leaves what the table already holds as it is.
Frame ==
    /\ \A r \in 0 .. (table.regions - 1) :
          /\ table'.advice[r] = table.advice[r]
          /\ table'.q_fib[r] = table.q_fib[r]
    /\ table.copies \subseteq table'.copies
    /\ (state' \in {"Initialized", "Steady"} /\ table' # table) =>
          LET r == table.regions
          IN  /\ table'.regions = r + 1
              /\ ActiveRows(table') = ActiveRows(table) \cup {r}
              /\ r \notin ActiveRows(table)
              /\ \A c \in Columns :
                    ~table.advice[r][c].assigned /\ table'.advice[r][c].assigned
              /\ \A rr \in Rows \ {r} : table'.advice[rr] = table.advice[rr]
              /\ Cardinality(table'.copies) = Cardinality(table.copies) +
                    (IF state' = "Steady" THEN 2 ELSE 0)

Counts ==
    Built =>
        /\ table.regions = steps + 1
        /\ ActiveRows(table) = 0 .. steps
        /\ Cardinality(ActiveRows(table)) = steps + 1
        /\ Cardinality(table.copies) = 2 * steps

\* C10: every step adds one region of one row, the selector and one cell in
\* each of the three columns at the region's offset 0, and leaves every
\* earlier cell, selector activation and equality constraint unchanged; a
\* steady-state step adds two equality constraints, so init and K steps give
\* K + 1 active rows and 2K equality constraints.
C10_AppendOnly == [][Frame]_vars /\ []Counts

C10_Witness ==
    /\ state = "Steady"
    /\ steps = K
    /\ K = MaxSteps
    /\ Cardinality(ActiveRows(table)) = K + 1
    /\ Cardinality(table.copies) = 2 * K
====
